---- MODULE Spec2Model ----
(***************************************************************************)
(* Model of src/untitled5.py: StreamlitCropDiseaseAnalyzer and main().     *)
(*                                                                         *)
(* Units.  Python floats are modelled as exact fixed-point integers:       *)
(*   - npk_multiplier and the regional multipliers are in tenths           *)
(*     (0.4 is 4, 1.2 is 12);                                              *)
(*   - acres is in tenths of an acre (2.0 acres is 20);                    *)
(*   - a nutrient amount is therefore in thousandths of a kilogram.        *)
(* Time.  The clock `now` counts ticks, TicksPerDay ticks to a day, so     *)
(* that datetime.now() carries a time of day; a sowing date is a whole     *)
(* day (midnight).  The "image" URLs of CROPS are left out: no operation   *)
(* modelled here reads them.                                               *)
(***************************************************************************)
EXTENDS Integers, Sequences, FiniteSets, TLC

VARIABLES
    CROPS,                  \* self.CROPS
    REGIONAL_NPK,           \* self.REGIONAL_NPK
    BASE_NPK_REQUIREMENTS,  \* self.BASE_NPK_REQUIREMENTS
    now,                    \* the wall clock read by datetime.now(), in ticks
    op,                     \* what the last step did: the method called, "tick", or "None" at the start
    \* The next ten variables hold the arguments and the outcome of the last
    \* method call only; those the call does not have are at their "None" value.
    crop,                   \* argument crop of the last call
    sowing_date,            \* argument sowing_date of the last call (a day)
    location,               \* argument location of the last call
    acres,                  \* argument acres of the last call (tenths)
    stage_arg,              \* argument growth_stage of calculate_npk_requirements
    growth_stage,           \* value returned by calculate_growth_stage
    npk_req,                \* value returned by calculate_npk_requirements: <<>> or <<record>>
    region,                 \* value returned by get_region
    weather_data,           \* weather snapshot: <<>> is None, <<record>> is a dict
    recommendations,        \* value returned by get_weather_based_recommendations
    exc,                    \* exception raised by the last call / by main ("None" if none)
    pc,                     \* position of main()
    selected_crop,          \* main's selected_crop ("None" if no button pressed)
    rendered,               \* the sections main has rendered so far, in order
    analysis_text,          \* main's analysis_text, a sequence of text segments (<<>> before the query)
    gemini_outcome,         \* how the query of query_gemini_api went ("None" before the query)
    tts_calls,              \* the texts text_to_speech has been invoked on, in order
    earlier_npk             \* history: <<>>, or the first calculate_npk_requirements call
                            \* of the behaviour (arguments, outcome) and how many other
                            \* calls have followed it

vars == <<CROPS, REGIONAL_NPK, BASE_NPK_REQUIREMENTS, now, op, crop,
          sowing_date, location, acres, stage_arg, growth_stage,
          npk_req, region, weather_data, recommendations, exc, pc, selected_crop,
          rendered, analysis_text, gemini_outcome, tts_calls, earlier_npk>>

tables == <<CROPS, REGIONAL_NPK, BASE_NPK_REQUIREMENTS>>

diseaseVars == <<analysis_text, gemini_outcome, tts_calls>>

mainVars == <<pc, selected_crop, rendered, diseaseVars>>

----------------------------------------------------------------------------
(* Bounds of the model *)

TicksPerDay == 2

MaxDay == 143

MaxSowDay == 2

MaxTick == MaxDay * TicksPerDay + (TicksPerDay - 1)

\* acres offered to calculate_npk_requirements: -1 .. MaxAcres tenths, and 2.0 acres
MaxAcres == 3

\* temperatures MinTemp..MaxTemp (degrees C) and humidities MinHumidity..MaxHumidity (percent)
MinTemp == 13

MaxTemp == 32

MinHumidity == 79

MaxHumidity == 82

\* a clock reading in the middle of a crop's life, for the requests of main
MidDay == 30

\* the calls counted after the remembered calculate_npk_requirements call
MaxBetween == 2

----------------------------------------------------------------------------
(* The tables built by __init__ *)

InitCROPS ==
    [ Rice |-> [stages |-> <<
          [name |-> "Seedling",   duration |-> 25, npk_multiplier |-> 4],
          [name |-> "Vegetative", duration |-> 50, npk_multiplier |-> 9],
          [name |-> "Flowering",  duration |-> 30, npk_multiplier |-> 12],
          [name |-> "Maturing",   duration |-> 35, npk_multiplier |-> 14] >>],
      Maize |-> [stages |-> <<
          [name |-> "Seedling",   duration |-> 20, npk_multiplier |-> 5],
          [name |-> "Vegetative", duration |-> 45, npk_multiplier |-> 10],
          [name |-> "Flowering",  duration |-> 30, npk_multiplier |-> 13],
          [name |-> "Maturing",   duration |-> 35, npk_multiplier |-> 16] >>],
      Sorghum |-> [stages |-> <<
          [name |-> "Seedling",   duration |-> 22, npk_multiplier |-> 5],
          [name |-> "Vegetative", duration |-> 40, npk_multiplier |-> 10],
          [name |-> "Flowering",  duration |-> 25, npk_multiplier |-> 12],
          [name |-> "Maturing",   duration |-> 30, npk_multiplier |-> 14] >>],
      Cotton |-> [stages |-> <<
          [name |-> "Seedling",       duration |-> 25, npk_multiplier |-> 6],
          [name |-> "Vegetative",     duration |-> 45, npk_multiplier |-> 11],
          [name |-> "Flowering",      duration |-> 30, npk_multiplier |-> 15],
          [name |-> "Boll Formation", duration |-> 35, npk_multiplier |-> 18] >>],
      Groundnut |-> [stages |-> <<
          [name |-> "Seedling",      duration |-> 20, npk_multiplier |-> 5],
          [name |-> "Vegetative",    duration |-> 40, npk_multiplier |-> 10],
          [name |-> "Flowering",     duration |-> 25, npk_multiplier |-> 12],
          [name |-> "Pod Formation", duration |-> 30, npk_multiplier |-> 15] >>] ]

InitREGIONAL_NPK ==
    [ North   |-> [N |-> 12, P |-> 8,  K |-> 10],
      South   |-> [N |-> 9,  P |-> 11, K |-> 12],
      East    |-> [N |-> 11, P |-> 9,  K |-> 8],
      West    |-> [N |-> 10, P |-> 10, K |-> 10],
      Central |-> [N |-> 11, P |-> 10, K |-> 9] ]

InitBASE_NPK_REQUIREMENTS ==
    [ Rice      |-> [N |-> 100, P |-> 50, K |-> 80],
      Maize     |-> [N |-> 120, P |-> 60, K |-> 100],
      Sorghum   |-> [N |-> 90,  P |-> 40, K |-> 70],
      Cotton    |-> [N |-> 110, P |-> 70, K |-> 90],
      Groundnut |-> [N |-> 80,  P |-> 60, K |-> 70] ]

\* The crops a caller may name: the five of the catalog and one that is not in it.
CropArgs == {"Rice", "Maize", "Sorghum", "Cotton", "Groundnut", "Wheat"}

----------------------------------------------------------------------------
(* calculate_growth_stage *)

\* (datetime.now() - sowing_date).days: timedelta.days is the floor of the
\* difference in days, also when the difference is negative.
DaysSince(clock, sowing) == (clock - sowing * TicksPerDay) \div TicksPerDay

\* Variants of the comparison of line 150: exclusive upper bound, and reversed.
StageReachedExclusive(days, accumulated_days) == days < accumulated_days

StageReachedReversed(days, accumulated_days) == days >= accumulated_days

\* The comparison of line 150.
StageReached(days, accumulated_days) == days <= accumulated_days

\* Variant of the loop that falls back to the last stage instead of "Mature".
RECURSIVE StageScanClamped(_, _, _, _)
StageScanClamped(stages, i, accumulated_days, days) ==
    IF i > Len(stages)
    THEN stages[Len(stages)].name
    ELSE LET acc == accumulated_days + stages[i].duration
         IN  IF days <= acc
             THEN stages[i].name
             ELSE StageScanClamped(stages, i + 1, acc, days)

\* The for loop of lines 148-152 from the i-th stage on.
RECURSIVE StageScan(_, _, _, _)
StageScan(stages, i, accumulated_days, days) ==
    IF i > Len(stages)
    THEN "Mature"
    ELSE LET acc == accumulated_days + stages[i].duration
         IN  IF StageReached(days, acc)
             THEN stages[i].name
             ELSE StageScan(stages, i + 1, acc, days)

\* The outcome of calculate_growth_stage(sowing, c) when the clock reads `clock`.
calculate_growth_stage(crops, clock, sowing, c) ==
    IF c \notin DOMAIN crops
    THEN [exc |-> "KeyError", stage |-> "None"]
    ELSE [exc |-> "None",
          stage |-> StageScan(crops[c].stages, 1, 0, DaysSince(clock, sowing))]

----------------------------------------------------------------------------
(* get_region, calculate_npk_requirements *)

Locations == {"Delhi, India", "Nowhereville, Mars"}

\* Every stage name of the catalog, the sentinel "Mature", and a misspelt name.
StageArgs ==
    {"Seedling", "Vegetative", "Flowering", "Maturing", "Boll Formation",
     "Pod Formation", "Mature", "seedling"}

AcresArgs == ((0 - 1)..MaxAcres) \cup {20}

\* Lines 166-170: the location is not read.
get_region(loc) == "North"

HasStage(stages, st) == \E k \in 1..Len(stages) : stages[k].name = st

\* Variant of the stage lookup: dict.get with a neutral default of 1.0.
StageLookupDefaulting(stages, st) ==
    IF HasStage(stages, st)
    THEN [exc |-> "None",
          npk_multiplier |-> stages[CHOOSE k \in 1..Len(stages) : stages[k].name = st].npk_multiplier]
    ELSE [exc |-> "None", npk_multiplier |-> 10]

\* self.CROPS[crop]["stages"][growth_stage]["npk_multiplier"] of line 158.
StageLookup(stages, st) ==
    IF HasStage(stages, st)
    THEN [exc |-> "None",
          npk_multiplier |-> stages[CHOOSE k \in 1..Len(stages) : stages[k].name = st].npk_multiplier]
    ELSE [exc |-> "KeyError", npk_multiplier |-> 0]

\* Variant of the product that leaves the stage multiplier out.
NutrientWithoutStage(base, regional, stage_multiplier, a) == base * regional * 10 * a

\* Variant of the product in which acres is added instead of multiplied.
NutrientAcresAdded(base, regional, stage_multiplier, a) ==
    ((base * regional) * stage_multiplier) + a

\* One line of 161-163, evaluated left to right.
Nutrient(base, regional, stage_multiplier, a) == ((base * regional) * stage_multiplier) * a

\* The outcome of calculate_npk_requirements(c, loc, a, st), lines 154-164.
calculate_npk_requirements(crops, regional_npk, base_npk_requirements, c, loc, a, st) ==
    IF c \notin DOMAIN base_npk_requirements
    THEN [exc |-> "KeyError", region |-> "None", value |-> <<>>]
    ELSE IF get_region(loc) \notin DOMAIN regional_npk
    THEN [exc |-> "KeyError", region |-> get_region(loc), value |-> <<>>]
    ELSE IF c \notin DOMAIN crops
    THEN [exc |-> "KeyError", region |-> get_region(loc), value |-> <<>>]
    ELSE LET base_npk == base_npk_requirements[c]
             regional_multiplier == regional_npk[get_region(loc)]
             lookup == StageLookup(crops[c].stages, st)
         IN  IF lookup.exc # "None"
             THEN [exc |-> lookup.exc, region |-> get_region(loc), value |-> <<>>]
             ELSE [exc |-> "None", region |-> get_region(loc),
                   value |-> << [N |-> Nutrient(base_npk.N, regional_multiplier.N,
                                                lookup.npk_multiplier, a),
                                 P |-> Nutrient(base_npk.P, regional_multiplier.P,
                                                lookup.npk_multiplier, a),
                                 K |-> Nutrient(base_npk.K, regional_multiplier.K,
                                                lookup.npk_multiplier, a)] >>]

----------------------------------------------------------------------------
(* get_weather_based_recommendations *)

HighTemperatureMsg == "High temperature detected. Increase irrigation frequency."

LowTemperatureMsg == "Low temperature detected. Consider protective measures."

HighHumidityMsg == "High humidity may increase disease risk. Ensure good ventilation."

WeatherSnapshots ==
    [temperature : MinTemp..MaxTemp, humidity : MinHumidity..MaxHumidity,
     precipitation : {10, 11}]

\* Variant in which the humidity rule is one more elif of the temperature chain.
WeatherRecommendationsChained(w) ==
    IF w.temperature > 30 THEN <<HighTemperatureMsg>>
    ELSE IF w.temperature < 15 THEN <<LowTemperatureMsg>>
    ELSE IF w.humidity > 80 THEN <<HighHumidityMsg>>
    ELSE <<>>

\* Lines 174-184; the parameters crop and growth_stage are not read.
get_weather_based_recommendations(w) ==
    (IF w.temperature > 30 THEN <<HighTemperatureMsg>>
     ELSE IF w.temperature < 15 THEN <<LowTemperatureMsg>>
     ELSE <<>>)
    \o (IF w.humidity > 80 THEN <<HighHumidityMsg>> ELSE <<>>)

----------------------------------------------------------------------------
(* States and actions *)

NoCall ==
    /\ op = "None" /\ crop = "None" /\ sowing_date = 0
    /\ location = "None" /\ acres = 0 /\ stage_arg = "None"
    /\ growth_stage = "None" /\ npk_req = <<>>
    /\ region = "None" /\ weather_data = <<>> /\ recommendations = <<>>
    /\ exc = "None"

InitTables ==
    /\ CROPS = InitCROPS
    /\ REGIONAL_NPK = InitREGIONAL_NPK
    /\ BASE_NPK_REQUIREMENTS = InitBASE_NPK_REQUIREMENTS

Init ==
    /\ InitTables
    /\ now = 0
    /\ NoCall
    /\ pc = "none" /\ selected_crop = "None" /\ rendered = <<>>
    /\ analysis_text = <<>> /\ gemini_outcome = "None" /\ tts_calls = <<>>
    /\ earlier_npk = <<>>

\* Time passes.
Tick ==
    /\ now < MaxTick
    /\ now' = now + 1
    /\ op' = "tick"
    /\ UNCHANGED <<tables, crop, sowing_date, location, acres, stage_arg,
                   growth_stage, npk_req, region, weather_data,
                   recommendations, exc, mainVars, earlier_npk>>

\* A call calculate_growth_stage(s, c).
GrowthStageCall(c, s) ==
    LET r == calculate_growth_stage(CROPS, now, s, c)
    IN  /\ op' = "calculate_growth_stage"
        /\ crop' = c
        /\ sowing_date' = s
        /\ growth_stage' = r.stage
        /\ exc' = r.exc
        /\ location' = "None" /\ acres' = 0 /\ stage_arg' = "None"
        /\ npk_req' = <<>> /\ region' = "None"
        /\ weather_data' = <<>> /\ recommendations' = <<>>
        /\ UNCHANGED <<tables, now, mainVars>>

CallGrowthStage ==
    \E c \in CropArgs, s \in 0..MaxSowDay :
        GrowthStageCall(c, s) /\ UNCHANGED earlier_npk

Next == Tick \/ CallGrowthStage

Spec == Init /\ [][Next]_vars

----------------------------------------------------------------------------
(* The calculator methods called directly, at a fixed reading of the clock *)

InitCalc ==
    /\ InitTables
    /\ now \in {0, MaxTick}
    /\ NoCall
    /\ pc = "none" /\ selected_crop = "None" /\ rendered = <<>>
    /\ analysis_text = <<>> /\ gemini_outcome = "None" /\ tts_calls = <<>>
    /\ earlier_npk = <<>>

\* Variant of the call that scales the crop's entry of BASE_NPK_REQUIREMENTS
\* in place (the dict the method holds is the table's own) before returning it.
NpkCallInPlace(c, loc, a, st) ==
    LET r == calculate_npk_requirements(CROPS, REGIONAL_NPK, BASE_NPK_REQUIREMENTS,
                                        c, loc, a, st)
    IN  /\ op' = "calculate_npk_requirements"
        /\ crop' = c
        /\ location' = loc
        /\ acres' = a
        /\ stage_arg' = st
        /\ region' = r.region
        /\ npk_req' = r.value
        /\ exc' = r.exc
        /\ sowing_date' = 0 /\ growth_stage' = "None"
        /\ weather_data' = <<>> /\ recommendations' = <<>>
        /\ BASE_NPK_REQUIREMENTS' =
               IF r.exc = "None"
               THEN [BASE_NPK_REQUIREMENTS EXCEPT ![c] = r.value[1]]
               ELSE BASE_NPK_REQUIREMENTS
        /\ UNCHANGED <<CROPS, REGIONAL_NPK, now, mainVars>>

\* A call calculate_npk_requirements(c, loc, a, st), lines 154-164.
NpkCall(c, loc, a, st) ==
    LET r == calculate_npk_requirements(CROPS, REGIONAL_NPK, BASE_NPK_REQUIREMENTS,
                                        c, loc, a, st)
    IN  /\ op' = "calculate_npk_requirements"
        /\ crop' = c
        /\ location' = loc
        /\ acres' = a
        /\ stage_arg' = st
        /\ region' = r.region
        /\ npk_req' = r.value
        /\ exc' = r.exc
        /\ sowing_date' = 0 /\ growth_stage' = "None"
        /\ weather_data' = <<>> /\ recommendations' = <<>>
        /\ UNCHANGED <<tables, now, mainVars>>

CallNpkRequirements ==
    \E c \in CropArgs, loc \in Locations, a \in AcresArgs, st \in StageArgs :
        NpkCall(c, loc, a, st) /\ UNCHANGED earlier_npk

\* A call get_region(loc).
RegionCall(loc) ==
    /\ op' = "get_region"
    /\ location' = loc
    /\ region' = get_region(loc)
    /\ exc' = "None"
    /\ crop' = "None" /\ sowing_date' = 0 /\ acres' = 0 /\ stage_arg' = "None"
    /\ growth_stage' = "None" /\ npk_req' = <<>>
    /\ weather_data' = <<>> /\ recommendations' = <<>>
    /\ UNCHANGED <<tables, now, mainVars>>

CallGetRegion ==
    \E loc \in Locations :
        RegionCall(loc) /\ UNCHANGED earlier_npk

\* A call get_weather_based_recommendations(w, crop, growth_stage).
RecommendationsCall(w) ==
    /\ op' = "get_weather_based_recommendations"
    /\ weather_data' = <<w>>
    /\ recommendations' = get_weather_based_recommendations(w)
    /\ exc' = "None"
    /\ crop' = "None" /\ sowing_date' = 0 /\ location' = "None" /\ acres' = 0
    /\ stage_arg' = "None" /\ growth_stage' = "None" /\ npk_req' = <<>>
    /\ region' = "None"
    /\ UNCHANGED <<tables, now, mainVars>>

CallWeatherRecommendations ==
    \E w \in WeatherSnapshots :
        RecommendationsCall(w) /\ UNCHANGED earlier_npk

NextCalc ==
    \/ CallGrowthStage
    \/ CallNpkRequirements
    \/ CallGetRegion
    \/ CallWeatherRecommendations

SpecCalc == InitCalc /\ [][NextCalc]_vars

----------------------------------------------------------------------------
(* Sequences of calls of the four calculator methods, with the first       *)
(* calculate_npk_requirements call remembered in earlier_npk.              *)

RepeatCrops == {"Rice", "Cotton"}

RepeatStages == {"Seedling", "Boll Formation", "Mature"}

RepeatAcres == 1..2

RepeatSnapshots == {w \in WeatherSnapshots : w.temperature \in {MinTemp, MaxTemp}}

\* One more call that is not the remembered one has been made.
OtherCallMade ==
    earlier_npk' =
        IF earlier_npk = <<>>
        THEN <<>>
        ELSE << [earlier_npk[1] EXCEPT
                     !.between = IF @ < MaxBetween THEN @ + 1 ELSE @] >>

SameAsEarlier(c, loc, a, st) ==
    /\ earlier_npk # <<>>
    /\ earlier_npk[1].crop = c /\ earlier_npk[1].location = loc
    /\ earlier_npk[1].acres = a /\ earlier_npk[1].stage = st

RepeatNpkRequirements ==
    \E c \in RepeatCrops, loc \in Locations, a \in RepeatAcres, st \in RepeatStages :
        /\ NpkCall(c, loc, a, st)
        /\ IF earlier_npk = <<>>
           THEN earlier_npk' = << [crop |-> c, location |-> loc, acres |-> a, stage |-> st,
                                   value |-> npk_req', exc |-> exc', between |-> 0] >>
           ELSE IF SameAsEarlier(c, loc, a, st)
           THEN UNCHANGED earlier_npk
           ELSE OtherCallMade

RepeatGrowthStage ==
    \E c \in RepeatCrops, s \in 0..MaxSowDay :
        GrowthStageCall(c, s) /\ OtherCallMade

RepeatGetRegion ==
    \E loc \in Locations :
        RegionCall(loc) /\ OtherCallMade

RepeatWeatherRecommendations ==
    \E w \in RepeatSnapshots :
        RecommendationsCall(w) /\ OtherCallMade

NextRepeat ==
    \/ RepeatNpkRequirements
    \/ RepeatGrowthStage
    \/ RepeatGetRegion
    \/ RepeatWeatherRecommendations

SpecRepeat == InitCalc /\ [][NextRepeat]_vars

----------------------------------------------------------------------------
(* main(): one request, from the widgets to the farming videos.            *)
(* pc = "disease" is the start of the disease analysis section (line 631). *)

InitMain ==
    /\ InitTables
    /\ now \in {0, MidDay * TicksPerDay + 1, MaxTick}
    /\ NoCall
    /\ pc = "start" /\ selected_crop = "None" /\ rendered = <<>>
    /\ analysis_text = <<>> /\ gemini_outcome = "None" /\ tts_calls = <<>>
    /\ earlier_npk = <<>>

\* The snapshots the weather service answers with in a request.
MainSnapshots == {w \in WeatherSnapshots : w.temperature \in {MinTemp, MaxTemp}}

\* get_weather_data, lines 104-141: the returned value and what st.error shows.
get_weather_data(outcome, w) ==
    IF outcome = "status_200"
    THEN [value |-> <<w>>, errors |-> <<>>]
    ELSE IF outcome = "status_other"
    THEN [value |-> <<>>, errors |-> <<"error: Weather API Error">>]
    ELSE [value |-> <<>>, errors |-> <<"error: Error fetching weather data">>]

\* Lines 547-571: what main renders for a weather value.
WeatherSection(wd) ==
    IF wd = <<>>
    THEN <<>>
    ELSE <<"weather_metrics">>
         \o (IF wd[1].humidity > 80 THEN <<"humidity_alert">> ELSE <<>>)
         \o (IF wd[1].precipitation > 10 THEN <<"rainfall_alert">> ELSE <<>>)

\* Lines 489-542: the sidebar widgets and the crop buttons.
MainInputs ==
    /\ pc = "start"
    /\ \E loc \in Locations, a \in 1..MaxAcres, s \in 0..MaxSowDay,
          sel \in DOMAIN CROPS \cup {"None"} :
        /\ location' = loc
        /\ acres' = a
        /\ sowing_date' = s
        /\ selected_crop' = sel
        /\ pc' = IF sel = "None" THEN "videos" ELSE "weather"
        /\ rendered' = IF sel = "None" THEN rendered ELSE <<"analysis_header">>
    /\ UNCHANGED <<earlier_npk, diseaseVars, tables, now, op, crop, stage_arg, growth_stage, npk_req, region,
                   weather_data, recommendations, exc>>

\* Line 546.
MainFetchWeather ==
    /\ pc = "weather"
    /\ \E outcome \in {"status_200", "status_other", "exception"}, w \in MainSnapshots :
        LET r == get_weather_data(outcome, w)
        IN  /\ weather_data' = r.value
            /\ rendered' = rendered \o r.errors
    /\ pc' = "weather_section"
    /\ UNCHANGED <<earlier_npk, diseaseVars, tables, now, op, crop, sowing_date, location, acres, stage_arg,
                   growth_stage, npk_req, region, recommendations, exc, selected_crop>>

\* Lines 547-571.
MainRenderWeather ==
    /\ pc = "weather_section"
    /\ rendered' = rendered \o WeatherSection(weather_data)
    /\ pc' = "stage"
    /\ UNCHANGED <<earlier_npk, diseaseVars, tables, now, op, crop, sowing_date, location, acres, stage_arg,
                   growth_stage, npk_req, region, weather_data, recommendations, exc,
                   selected_crop>>

\* Lines 574-577.
MainGrowthStage ==
    /\ pc = "stage"
    /\ LET r == calculate_growth_stage(CROPS, now, sowing_date, selected_crop)
       IN  /\ growth_stage' = r.stage
           /\ exc' = r.exc
           /\ pc' = IF r.exc = "None" THEN "progress" ELSE "aborted"
    /\ UNCHANGED <<earlier_npk, diseaseVars, tables, now, op, crop, sowing_date, location, acres, stage_arg,
                   npk_req, region, weather_data, recommendations, selected_crop,
                   rendered>>

\* Lines 579-603: list.index raises ValueError for a value that is not in the list.
MainGrowthProgress ==
    /\ pc = "progress"
    /\ IF HasStage(CROPS[selected_crop].stages, growth_stage)
       THEN /\ rendered' = rendered \o <<"growth_progress">>
            /\ pc' = "npk"
            /\ exc' = exc
       ELSE /\ exc' = "ValueError"
            /\ pc' = "aborted"
            /\ rendered' = rendered
    /\ UNCHANGED <<earlier_npk, diseaseVars, tables, now, op, crop, sowing_date, location, acres, stage_arg,
                   growth_stage, npk_req, region, weather_data, recommendations,
                   selected_crop>>

\* Lines 606-629.
MainNpk ==
    /\ pc = "npk"
    /\ LET r == calculate_npk_requirements(CROPS, REGIONAL_NPK, BASE_NPK_REQUIREMENTS,
                                           selected_crop, location, acres, growth_stage)
       IN  /\ npk_req' = r.value
           /\ region' = r.region
           /\ exc' = r.exc
           /\ pc' = IF r.exc = "None" THEN "disease" ELSE "aborted"
           /\ rendered' = IF r.exc = "None" THEN rendered \o <<"fertilizer">> ELSE rendered
    /\ UNCHANGED <<earlier_npk, diseaseVars, tables, now, op, crop, sowing_date, location, acres, stage_arg,
                   growth_stage, weather_data, recommendations, selected_crop>>

\* A text is a sequence of segments; an occurrence of the marker "Error:" in
\* the text is always a segment of its own.
ErrorMarker == "Error:"

\* The test `"Error:" in text` of line 635.
ContainsErrorMarker(text) == \E i \in 1..Len(text) : text[i] = ErrorMarker

\* What the model of a successful response may say.
AnalysisTexts ==
    { <<"Blast: diamond-shaped lesions on leaves. Use resistant varieties.">>,
      <<"# Diseases ", "Common grower ", "Error:", " overwatering, which favours root rot.">> }

\* str(e) of the exceptions raised while querying: a connection failure, a
\* 200 response without "candidates" (KeyError), and a message that happens
\* to contain the marker.
ExceptionMessages ==
    { <<"Connection refused">>,
      <<"'candidates'">>,
      <<"SSL", "Error:", " certificate verify failed">> }

\* The optional second line of the non-200 message, lines 222-226.
ErrorDetails == { <<>>, <<"\nDetails: ", "API key not valid.">> }

GeminiOutcomes == {"status_200", "status_other", "exception"}

\* query_gemini_api, lines 186-230: the returned text.
query_gemini_api(outcome, text, message, details) ==
    IF outcome = "status_200"
    THEN text
    ELSE IF outcome = "status_other"
    THEN <<ErrorMarker, " API returned status code 400">> \o details
    ELSE <<"Error querying API: ">> \o message

\* Line 633.
MainQueryGemini ==
    /\ pc = "disease"
    /\ \E outcome \in GeminiOutcomes, text \in AnalysisTexts,
          message \in ExceptionMessages, details \in ErrorDetails :
        /\ gemini_outcome' = outcome
        /\ analysis_text' = query_gemini_api(outcome, text, message, details)
    /\ pc' = "disease_result"
    /\ UNCHANGED <<earlier_npk, tts_calls, tables, now, op, crop, sowing_date, location,
                   acres, stage_arg, growth_stage, npk_req, region, weather_data,
                   recommendations, exc, selected_crop, rendered>>

\* Lines 635-668.  text_to_speech re-raises what the conversion raises (line 241).
MainDiseaseResult ==
    /\ pc = "disease_result"
    /\ IF ~ContainsErrorMarker(analysis_text)
       THEN /\ tts_calls' = Append(tts_calls, analysis_text)
            /\ \E converted \in BOOLEAN :
                IF converted
                THEN /\ rendered' = rendered \o <<"disease_analysis", "audio_summary",
                                                  "download_button">>
                     /\ pc' = "videos"
                     /\ exc' = exc
                ELSE /\ rendered' = rendered \o <<"disease_analysis",
                                                  "error: Error during TTS conversion">>
                     /\ pc' = "tts_failed"
                     /\ exc' = "Exception"
       ELSE /\ rendered' = rendered \o <<"error: analysis_text", "videos_header">>
            /\ pc' = "videos"
            /\ UNCHANGED <<tts_calls, exc>>
    /\ UNCHANGED <<earlier_npk, analysis_text, gemini_outcome, tables, now, op, crop,
                   sowing_date, location, acres, stage_arg, growth_stage, npk_req, region,
                   weather_data, recommendations, selected_crop>>

\* Lines 669-706: search_youtube_videos returns a list of videos or [].
MainVideos ==
    /\ pc = "videos"
    /\ \E found \in BOOLEAN :
        rendered' = rendered \o <<IF found THEN "video_cards" ELSE "warning: No videos found">>
    /\ pc' = "done"
    /\ UNCHANGED <<earlier_npk, diseaseVars, tables, now, op, crop, sowing_date, location,
                   acres, stage_arg, growth_stage, npk_req, region, weather_data,
                   recommendations, exc, selected_crop>>

NextMain ==
    \/ MainInputs
    \/ MainFetchWeather
    \/ MainRenderWeather
    \/ MainGrowthStage
    \/ MainGrowthProgress
    \/ MainNpk
    \/ MainQueryGemini
    \/ MainDiseaseResult
    \/ MainVideos

SpecMain == InitMain /\ [][NextMain]_vars

----------------------------------------------------------------------------
(* Vocabulary of the properties of calculate_growth_stage *)

\* The whole days elapsed from the sowing date (midnight) to the clock.
Elapsed ==
    CHOOSE e \in (0 - (MaxSowDay + 1))..(MaxDay + 1) :
        /\ (sowing_date + e) * TicksPerDay <= now
        /\ now < (sowing_date + e + 1) * TicksPerDay

RECURSIVE Cumulative(_, _)
Cumulative(stages, k) ==
    IF k = 0 THEN 0 ELSE Cumulative(stages, k - 1) + stages[k].duration

TotalDuration(c) == Cumulative(CROPS[c].stages, Len(CROPS[c].stages))

\* Position of a stage name in the crop's sequence; "Mature" counts after the last.
StageIndex(c, st) ==
    IF st = "Mature"
    THEN Len(CROPS[c].stages) + 1
    ELSE CHOOSE k \in 1..Len(CROPS[c].stages) : CROPS[c].stages[k].name = st

GrowthStageReturned ==
    /\ op = "calculate_growth_stage"
    /\ crop \in DOMAIN CROPS

\* C1: for a catalog crop and 0 <= e <= T, calculate_growth_stage returns the
\* first stage whose cumulative duration is >= e: e = 0 gives the first stage,
\* e = T the last, and a boundary day belongs to the stage just completed.
C1_FirstStageCoveringElapsed ==
    (GrowthStageReturned /\ 0 <= Elapsed /\ Elapsed <= TotalDuration(crop)) =>
        LET stages == CROPS[crop].stages
        IN  /\ exc = "None"
            /\ \E k \in 1..Len(stages) :
                   /\ growth_stage = stages[k].name
                   /\ Cumulative(stages, k) >= Elapsed
                   /\ \A j \in 1..(k - 1) : Cumulative(stages, j) < Elapsed
            /\ (Elapsed = 0 => growth_stage = stages[1].name)
            /\ (Elapsed = TotalDuration(crop) => growth_stage = stages[Len(stages)].name)
            /\ \A k \in 1..Len(stages) :
                   Elapsed = Cumulative(stages, k) => growth_stage = stages[k].name

\* A call on the boundary day of Rice's first stage.
C1_Witness ==
    /\ GrowthStageReturned /\ crop = "Rice"
    /\ Elapsed = 25 /\ growth_stage = "Seedling"

\* C2: for a fixed crop and sowing date, a later call never returns a stage of
\* smaller index than an earlier call ("Mature" counted after the last stage).
C2_StageIndexNeverDecreases ==
    [][ ( /\ crop \in DOMAIN CROPS /\ growth_stage # "None"
          /\ op' = "calculate_growth_stage"
          /\ crop' = crop /\ sowing_date' = sowing_date )
        => StageIndex(crop', growth_stage') >= StageIndex(crop, growth_stage) ]_vars

\* The day after Rice's first boundary day, the stage has moved on.
C2_Witness ==
    /\ GrowthStageReturned /\ crop = "Rice" /\ sowing_date = 0
    /\ Elapsed = 26 /\ growth_stage = "Vegetative"

\* C3: when the elapsed days exceed the sum of the crop's stage durations,
\* calculate_growth_stage returns "Mature" and raises nothing.
C3_PastLastStageIsMature ==
    (GrowthStageReturned /\ Elapsed > TotalDuration(crop)) =>
        (growth_stage = "Mature" /\ exc = "None")

C3_Witness ==
    /\ GrowthStageReturned /\ crop = "Rice"
    /\ Elapsed = 141 /\ growth_stage = "Mature"

\* C4: when the sowing date lies in the future of the clock,
\* calculate_growth_stage raises an invalid-input error and returns no stage.
C4_FutureSowingDateRaises ==
    (GrowthStageReturned /\ now < sowing_date * TicksPerDay) =>
        (exc = "InvalidInputError" /\ growth_stage = "None")

----------------------------------------------------------------------------
(* Properties of calculate_npk_requirements, get_region and                *)
(* get_weather_based_recommendations                                       *)

NpkReturned == op = "calculate_npk_requirements"

\* The stage named by the last call is a key of the crop's stage table.
StageInTable ==
    /\ crop \in DOMAIN CROPS
    /\ \E k \in 1..Len(CROPS[crop].stages) : CROPS[crop].stages[k].name = stage_arg

StageMultiplierOf(c, st) ==
    LET stages == CROPS[c].stages
    IN  stages[CHOOSE k \in 1..Len(stages) : stages[k].name = st].npk_multiplier

\* C5: for a catalog crop, a stage of its table, any location and acres > 0,
\* each nutrient X is base[crop].X * regional[region of location].X *
\* stage multiplier * acres; Rice, North, Vegetative, 2 acres gives
\* N = 216, P = 72, K = 144 (kilograms; here in thousandths).
C5_NpkIsProductOfFactors ==
    (NpkReturned /\ StageInTable /\ acres > 0) =>
        /\ exc = "None"
        /\ Len(npk_req) = 1
        /\ LET reg == REGIONAL_NPK[get_region(location)]
               base == BASE_NPK_REQUIREMENTS[crop]
               m == StageMultiplierOf(crop, stage_arg)
           IN  /\ npk_req[1].N = base.N * reg.N * m * acres
               /\ npk_req[1].P = base.P * reg.P * m * acres
               /\ npk_req[1].K = base.K * reg.K * m * acres
        /\ (crop = "Rice" /\ get_region(location) = "North"
                /\ stage_arg = "Vegetative" /\ acres = 20)
           => npk_req = << [N |-> 216000, P |-> 72000, K |-> 144000] >>

C5_Witness ==
    /\ NpkReturned /\ crop = "Rice" /\ stage_arg = "Vegetative" /\ acres = 20
    /\ npk_req = << [N |-> 216000, P |-> 72000, K |-> 144000] >>

\* C6: calculate_npk_requirements called with acres <= 0 raises an
\* invalid-input error and returns no nutrient requirement.
C6_NonPositiveAcresRaises ==
    (NpkReturned /\ StageInTable /\ acres <= 0) =>
        (exc = "InvalidInputError" /\ npk_req = <<>>)

\* C7: calculate_npk_requirements called with a stage name that is not in the
\* crop's stage table (the sentinel "Mature" included) raises a lookup error:
\* no default multiplier is substituted and no requirement is returned.
C7_UnknownStageRaises ==
    (NpkReturned /\ crop \in DOMAIN CROPS /\ ~StageInTable) =>
        (exc = "KeyError" /\ npk_req = <<>>)

C7_Witness ==
    /\ NpkReturned /\ crop = "Rice" /\ stage_arg = "Mature" /\ acres > 0
    /\ exc = "KeyError" /\ npk_req = <<>>

\* C8: get_region returns the default region "Central" for a location that
\* matches no entry of the city table, such as "Nowhereville, Mars".
C8_UnmatchedLocationIsCentral ==
    (op \in {"get_region", "calculate_npk_requirements"}
        /\ location = "Nowhereville, Mars" /\ region # "None")
    => region = "Central"

RecommendationsReturned == op = "get_weather_based_recommendations"

InRecommendations(msg) ==
    \E i \in 1..Len(recommendations) : recommendations[i] = msg

\* C9: the returned list holds the irrigation warning iff temperature > 30,
\* the protective-measures warning iff temperature < 15, the ventilation
\* warning iff humidity > 80, and nothing else; the temperature rules and the
\* humidity rule do not suppress each other.
C9_RulesAreIndependent ==
    RecommendationsReturned =>
        LET w == weather_data[1]
        IN  /\ InRecommendations(HighTemperatureMsg) <=> (w.temperature > 30)
            /\ InRecommendations(LowTemperatureMsg) <=> (w.temperature < 15)
            /\ InRecommendations(HighHumidityMsg) <=> (w.humidity > 80)
            /\ \A i \in 1..Len(recommendations) :
                   recommendations[i] \in
                       {HighTemperatureMsg, LowTemperatureMsg, HighHumidityMsg}
            /\ \A i, j \in 1..Len(recommendations) :
                   recommendations[i] = recommendations[j] => i = j

\* A hot and humid snapshot: both a temperature rule and the humidity rule fire.
C9_Witness ==
    /\ RecommendationsReturned
    /\ weather_data[1].temperature > 30 /\ weather_data[1].humidity > 80
    /\ recommendations = <<HighTemperatureMsg, HighHumidityMsg>>

----------------------------------------------------------------------------
(* Properties of main *)

InRendered(section) == \E i \in 1..Len(rendered) : rendered[i] = section

\* The request has reached the disease analysis section, or has been aborted
\* before it.
RequestOver == pc \in {"disease", "aborted"}

\* C10: when get_weather_data returns None, the weather metrics and alerts
\* are omitted and the growth-stage and NPK computations for the selected
\* crop are still carried out; the request is not aborted.
C10_WeatherUnavailableStillComputes ==
    (RequestOver /\ weather_data = <<>>) =>
        /\ ~InRendered("weather_metrics")
        /\ ~InRendered("humidity_alert")
        /\ ~InRendered("rainfall_alert")
        /\ growth_stage # "None"
        /\ npk_req # <<>>
        /\ pc # "aborted"

----------------------------------------------------------------------------
(* Linearity of calculate_npk_requirements in the area *)

\* C11: for a catalog crop, a stage of its table, any location and a > 0, a
\* call with acres 2*a returns for each nutrient exactly twice what the call
\* with acres a and otherwise the same arguments returns.
C11_NpkDoublesWithAcres ==
    [][ ( /\ NpkReturned /\ StageInTable /\ acres > 0
          /\ op' = "calculate_npk_requirements"
          /\ crop' = crop /\ location' = location /\ stage_arg' = stage_arg
          /\ acres' = 2 * acres )
        => /\ Len(npk_req) = 1 /\ Len(npk_req') = 1
           /\ npk_req'[1].N = 2 * npk_req[1].N
           /\ npk_req'[1].P = 2 * npk_req[1].P
           /\ npk_req'[1].K = 2 * npk_req[1].K ]_vars

\* A call with 0.2 acres, the double of the 0.1 acres the bounds also offer.
C11_Witness ==
    /\ NpkReturned /\ crop = "Cotton" /\ stage_arg = "Boll Formation"
    /\ acres = 2 /\ exc = "None"
    /\ npk_req = << [N |-> 2 * (110 * 12 * 18), P |-> 2 * (70 * 8 * 18),
                     K |-> 2 * (90 * 10 * 18)] >>

----------------------------------------------------------------------------
(* The tables are read-only; calculate_npk_requirements is repeatable *)

\* C12: no sequence of calls of calculate_growth_stage,
\* calculate_npk_requirements, get_region and get_weather_based_recommendations
\* changes CROPS, REGIONAL_NPK or BASE_NPK_REQUIREMENTS, and a
\* calculate_npk_requirements call with the arguments of an earlier one has
\* the earlier one's outcome, whatever was called in between.
C12_TablesFixedAndNpkRepeatable ==
    /\ CROPS = InitCROPS
    /\ REGIONAL_NPK = InitREGIONAL_NPK
    /\ BASE_NPK_REQUIREMENTS = InitBASE_NPK_REQUIREMENTS
    /\ (NpkReturned /\ SameAsEarlier(crop, location, acres, stage_arg)) =>
           (npk_req = earlier_npk[1].value /\ exc = earlier_npk[1].exc)

\* A repeated call that returned a requirement, with other calls in between.
C12_Witness ==
    /\ NpkReturned /\ SameAsEarlier(crop, location, acres, stage_arg)
    /\ earlier_npk[1].between >= 1
    /\ exc = "None" /\ npk_req # <<>>

----------------------------------------------------------------------------
(* The stage main computes is a stage main can look up *)

\* main has computed the growth stage of the selected crop.
StageComputed == pc \in {"progress", "npk", "disease", "aborted"}

\* C13: in main, for every selectable crop and every sowing date, the stage
\* returned by calculate_growth_stage is a key of the crop's stage table, so
\* stages.index(growth_stage) and calculate_npk_requirements both succeed:
\* no request reaches a lookup failure between the stage computation and
\* the fertilizer recommendation.
C13_ComputedStageIsInTable ==
    StageComputed =>
        /\ HasStage(CROPS[selected_crop].stages, growth_stage)
        /\ exc = "None"
        /\ pc # "aborted"

----------------------------------------------------------------------------
(* The error marker of query_gemini_api *)

DiseaseSectionOver == pc \in {"videos", "done", "tts_failed"}

\* C14: every error outcome of query_gemini_api (a non-200 response, an
\* exception raised while querying) is recognised by main through the marker
\* "Error:": the error is displayed, text_to_speech is never invoked on it,
\* and the disease analysis and the audio are produced only for a successful
\* response.
C14_ErrorOutcomesAreRecognised ==
    (DiseaseSectionOver /\ gemini_outcome \in {"status_other", "exception"}) =>
        /\ InRendered("error: analysis_text")
        /\ tts_calls = <<>>
        /\ ~InRendered("disease_analysis")
        /\ ~InRendered("audio_summary")

====
